---------------------------- MODULE Spec2Model ----------------------------
(***************************************************************************)
(* Linera Dominion: the Battle chain (turn controller and combat engine).  *)
(*                                                                         *)
(*   src/battle/src/contract.rs   BattleContract (operations, messages)    *)
(*   src/battle/src/state.rs      BattleState, CombatantData               *)
(*   src/battle/src/combat.rs     calculate_damage / calculate_losses /    *)
(*                                apply_losses / is_defeated / total_ships *)
(*                                                                         *)
(* Two specifications share the variables:                                 *)
(*   Spec        one battle chain from instantiation onward, driven by     *)
(*               operations, messages and the passing of system time;      *)
(*   SpecCombat  the pure functions of combat.rs applied to bounded        *)
(*               inputs, one combat round after the other.                 *)
(* Times and ship counts are naturals inside the bounds below, far from    *)
(* the u32 / u64 limits of the registers.                                  *)
(***************************************************************************)
EXTENDS Integers, Sequences, FiniteSets, TLC

VARIABLES
    \* ---- BattleState (state.rs:36-50) ----
    battle_id, region_chain, position_x, position_y,
    current_turn, max_turns, turn_duration_micros, is_active,
    start_time_micros, combatants, combatant_count, turn_records, war_bonds,
    \* ---- the host runtime ----
    now_micros,       \* runtime.system_time().micros()
    \* ---- observation of the run (not program state) ----
    last,             \* the step handled last: [kind, name, response, at]
    ok_resolutions,   \* number of RequestResolution operations that returned Ok
    ended_by,         \* the step that moved the battle from Active to Ended
    \* ---- combat.rs applied to two combatants (SpecCombat) ----
    attacker, defender, damage, losses, stage, rounds,
    \* ---- one pure function of the common crate applied to bounded inputs ----
    call,             \* the function applied ("none" before the call)
    args,             \* its arguments
    result,           \* what it returned
    \* ---- FlightPath::direct (coordinates.rs:215-250), its loop step by step ----
    flight,
    \* ---- RegionState (region/src/state.rs:52-65) ----
    sector_x, sector_y, universe_seed, fleets, fleet_count, planets,
    planet_count, debris, debris_count, battles, battle_count, is_subdivided,
    \* ---- observation of the Region run (not program state) ----
    region_last       \* the step the Region chain handled last

stateVars  == <<battle_id, region_chain, position_x, position_y,
                current_turn, max_turns, turn_duration_micros, is_active,
                start_time_micros, combatants, combatant_count, turn_records,
                war_bonds>>
obsVars    == <<last, ok_resolutions, ended_by>>
battleVars == <<stateVars, now_micros, obsVars>>
combatVars == <<attacker, defender, damage, losses, stage, rounds>>
pureVars   == <<call, args, result>>
regionState == <<sector_x, sector_y, universe_seed, fleets, fleet_count, planets,
                 planet_count, debris, debris_count, battles, battle_count,
                 is_subdivided>>
regionVars == <<regionState, region_last>>
commonVars == <<pureVars, flight, regionVars>>
vars       == <<battleVars, combatVars, commonVars>>

-----------------------------------------------------------------------------
(* Bounds of the model *)

MaxTurns    == 2    \* max_turns parameter ranges over 0..MaxTurns
MaxDuration == 2    \* turn_duration_micros parameter ranges over 0..MaxDuration
MaxStart    == 1    \* system time at instantiation ranges over 0..MaxStart
MaxNow      == 6    \* system time stops advancing here
MaxLen      == 11   \* ship vectors have 0..MaxLen types (the table covers 10)
MaxCount    == 1    \* ships of one type in a generated fleet: 0..MaxCount
MaxRounds   == 2    \* combat rounds applied to one pair of combatants

-----------------------------------------------------------------------------
(* combat.rs *)

\* const SHIP_ATTACK: [u64; 10]
SHIP_ATTACK  == <<5, 15, 50, 150, 100, 5, 1, 20, 80, 300>>
\* const SHIP_DEFENSE: [u64; 10]
SHIP_DEFENSE == <<2, 10, 30, 100, 150, 10, 5, 15, 50, 200>>

Min(a, b) == IF a < b THEN a ELSE b

\* u64::saturating_sub / u32::saturating_sub
saturating_sub(a, b) == IF a >= b THEN a - b ELSE 0

\* the defense fallback used for the attack
attack_of_fallback5(i) == IF i < Len(SHIP_ATTACK) THEN SHIP_ATTACK[i + 1] ELSE 5

\* SHIP_ATTACK.get(i).copied().unwrap_or(10); i is the 0-based index of enumerate()
attack_of(i) == IF i < Len(SHIP_ATTACK) THEN SHIP_ATTACK[i + 1] ELSE 10

\* SHIP_DEFENSE.get(i).copied().unwrap_or(5), as calculate_damage reads it
defense_of(i) == IF i < Len(SHIP_DEFENSE) THEN SHIP_DEFENSE[i + 1] ELSE 5

\* the factor 10 left out
hp_per_ship_unscaled(i) == IF i < Len(SHIP_DEFENSE) THEN SHIP_DEFENSE[i + 1] ELSE 10

\* SHIP_DEFENSE.get(i).copied().unwrap_or(10) * 10, as calculate_losses reads it
hp_per_ship(i) == (IF i < Len(SHIP_DEFENSE) THEN SHIP_DEFENSE[i + 1] ELSE 10) * 10

\* ships.iter().enumerate().map(|(i, &c)| c as u64 * attack).sum()
RECURSIVE attack_sum(_, _)
attack_sum(ships, n) ==
    IF n = 0 THEN 0
    ELSE attack_sum(ships, n - 1) + ships[n] * attack_of(n - 1)

\* ships.iter().enumerate().map(|(i, &c)| c as u64 * defense).sum()
RECURSIVE defense_sum(_, _)
defense_sum(ships, n) ==
    IF n = 0 THEN 0
    ELSE defense_sum(ships, n - 1) + ships[n] * defense_of(n - 1)

\* the defender's damage reduced by the attacker's whole defense
calculate_damage_unhalved(a, d) ==
    LET attacker_base    == attack_sum(a.ships, Len(a.ships))
        defender_base    == attack_sum(d.ships, Len(d.ships))
        attacker_defense == defense_sum(a.ships, Len(a.ships))
        defender_defense == defense_sum(d.ships, Len(d.ships))
    IN  << saturating_sub(attacker_base, defender_defense \div 2),
           saturating_sub(defender_base, attacker_defense) >>

\* pub fn calculate_damage(attacker, defender) -> (u64, u64)
calculate_damage(a, d) ==
    LET attacker_base    == attack_sum(a.ships, Len(a.ships))
        defender_base    == attack_sum(d.ships, Len(d.ships))
        attacker_defense == defense_sum(a.ships, Len(a.ships))
        defender_defense == defense_sum(d.ships, Len(d.ships))
    IN  << saturating_sub(attacker_base, defender_defense \div 2),
           saturating_sub(defender_base, attacker_defense \div 2) >>

\* the loop without `.min(count as u64)`
RECURSIVE losses_loop_uncapped(_, _, _, _)
losses_loop_uncapped(ships, i, rem, acc) ==
    IF i > Len(ships) THEN acc
    ELSE IF ships[i] = 0 \/ rem = 0
         THEN losses_loop_uncapped(ships, i + 1, rem, acc)
         ELSE LET hp         == hp_per_ship(i - 1)
                  ships_lost == rem \div hp
              IN  losses_loop_uncapped(ships, i + 1,
                              saturating_sub(rem, ships_lost * hp),
                              [acc EXCEPT ![i] = ships_lost])

\* the loop without the update of remaining_damage
RECURSIVE losses_loop_undeducted(_, _, _, _)
losses_loop_undeducted(ships, i, rem, acc) ==
    IF i > Len(ships) THEN acc
    ELSE IF ships[i] = 0 \/ rem = 0
         THEN losses_loop_undeducted(ships, i + 1, rem, acc)
         ELSE LET hp         == hp_per_ship(i - 1)
                  ships_lost == Min(rem \div hp, ships[i])
              IN  losses_loop_undeducted(ships, i + 1, rem,
                              [acc EXCEPT ![i] = ships_lost])

\* the for loop of calculate_losses from index i (1-based here) onward:
\* acc is `losses`, rem is `remaining_damage`
RECURSIVE losses_loop(_, _, _, _)
losses_loop(ships, i, rem, acc) ==
    IF i > Len(ships) THEN acc
    ELSE IF ships[i] = 0 \/ rem = 0
         THEN losses_loop(ships, i + 1, rem, acc)
         ELSE LET hp         == hp_per_ship(i - 1)
                  ships_lost == Min(rem \div hp, ships[i])
              IN  losses_loop(ships, i + 1,
                              saturating_sub(rem, ships_lost * hp),
                              [acc EXCEPT ![i] = ships_lost])

\* pub fn calculate_losses(combatant, damage) -> Vec<u32>
calculate_losses(c, dmg) ==
    losses_loop(c.ships, 1, dmg, [i \in 1..Len(c.ships) |-> 0])

\* plain subtraction in place of saturating_sub
apply_losses_unsaturated(c, ls) ==
    [c EXCEPT !.remaining_ships =
        [i \in 1..Len(c.remaining_ships) |->
            IF i <= Len(ls)
            THEN c.remaining_ships[i] - ls[i]
            ELSE c.remaining_ships[i]]]

\* pub fn apply_losses(combatant: &mut CombatantData, losses: &[u32])
apply_losses(c, ls) ==
    [c EXCEPT !.remaining_ships =
        [i \in 1..Len(c.remaining_ships) |->
            IF i <= Len(ls)
            THEN saturating_sub(c.remaining_ships[i], ls[i])
            ELSE c.remaining_ships[i]]]

\* pub fn is_defeated(combatant) -> bool
is_defeated(c) == \A i \in 1..Len(c.remaining_ships) : c.remaining_ships[i] = 0

\* pub fn total_ships(combatant) -> u32
RECURSIVE total_ships_upto(_, _)
total_ships_upto(c, n) ==
    IF n = 0 THEN 0 ELSE total_ships_upto(c, n - 1) + c.remaining_ships[n]
total_ships(c) == total_ships_upto(c, Len(c.remaining_ships))

-----------------------------------------------------------------------------
(* state.rs *)

\* CombatantData as instantiate() builds it for the attacker / the defender
NewCombatant(chain, ships, defends) ==
    [ owner_chain      |-> chain,
      ships            |-> ships,
      remaining_ships  |-> ships,
      bonded_iron      |-> 0,
      bonded_deuterium |-> 0,
      bonded_crystals  |-> 0,
      is_defender      |-> defends,
      has_retreated    |-> FALSE ]


\* The fleets a battle is instantiated with (BattleInstantiationArg.attacker_ships,
\* .defender_ships): the two fleets of the end-to-end scenario.
BattleFleets == { <<10>>, <<0, 5>> }

\* BattleState::initialize, then the rest of BattleContract::instantiate
instantiate(p_max_turns, p_turn_duration, now, attacker_ships, defender_ships) ==
    /\ battle_id = 0
    /\ region_chain = ""
    /\ position_x = 0
    /\ position_y = 0
    /\ current_turn = 0
    /\ max_turns = p_max_turns
    /\ turn_duration_micros = p_turn_duration
    /\ is_active = TRUE
    /\ start_time_micros = now
    /\ combatants = (0 :> NewCombatant("attacker_chain", attacker_ships, FALSE)) @@
                    (1 :> NewCombatant("defender_chain", defender_ships, TRUE))
    /\ combatant_count = 2
    /\ turn_records = << >>          \* MapView<u32, TurnRecordData>, empty
    /\ war_bonds = << >>             \* MapView<u64, WarBondData>, empty
    /\ now_micros = now

-----------------------------------------------------------------------------
(* contract.rs *)

Operations == { "SubmitCommand", "RequestResolution", "ForceTimeout", "ExtendWarBond" }
Messages   == { "InitializeBattle", "SubmitCommand", "RequestResolution",
                "ForceTimeout", "BattleResult" }

\* the is_active check left out
battle_not_active_unchecked == FALSE

\* if !is_active { return Err(BattleError::BattleNotActive) }
battle_not_active == ~is_active

\* the deadline of the turn after the current one
expected_time_next_turn ==
    start_time_micros + (current_turn + 2) * turn_duration_micros

\* let expected_time = start_time + (current_turn as u64 + 1) * turn_duration;
expected_time == start_time_micros + (current_turn + 1) * turn_duration_micros

\* `<=` in place of `<`
timeout_not_reached_inclusive == now_micros <= expected_time

\* if now_micros < expected_time { return Err(BattleError::TimeoutNotReached) }
timeout_not_reached == now_micros < expected_time

\* the comparison made on the turn counter before the increment
max_turns_reached_late == current_turn >= max_turns

\* if current_turn + 1 >= max_turns
max_turns_reached == current_turn + 1 >= max_turns

\* one request counted as two turns
process_turn_twice ==
    /\ current_turn' = current_turn + 2
    /\ is_active' = IF max_turns_reached THEN FALSE ELSE is_active
    /\ UNCHANGED <<battle_id, region_chain, position_x, position_y, max_turns,
                   turn_duration_micros, start_time_micros, combatants,
                   combatant_count, turn_records, war_bonds>>

\* fn process_turn(&mut self, _now_micros: u64)
process_turn ==
    /\ current_turn' = current_turn + 1
    /\ is_active' = IF max_turns_reached THEN FALSE ELSE is_active
    /\ UNCHANGED <<battle_id, region_chain, position_x, position_y, max_turns,
                   turn_duration_micros, start_time_micros, combatants,
                   combatant_count, turn_records, war_bonds>>

\* what the run shows of a handled step
Observe(kind, name, response) ==
    /\ last' = [kind |-> kind, name |-> name, response |-> response,
                at |-> now_micros]
    /\ ok_resolutions' = IF kind = "operation" /\ name = "RequestResolution"
                            /\ response = "Ok"
                         THEN ok_resolutions + 1 ELSE ok_resolutions
    /\ ended_by' = IF is_active /\ ~is_active'
                   THEN [kind |-> kind, name |-> name]
                   ELSE ended_by

\* async fn execute_operation(&mut self, operation) -> Result<(), BattleError>
execute_operation(operation) ==
    /\ operation \in Operations
    /\ IF battle_not_active
       THEN /\ UNCHANGED stateVars
            /\ Observe("operation", operation, "BattleNotActive")
       ELSE CASE operation = "SubmitCommand" ->
                   /\ UNCHANGED stateVars
                   /\ Observe("operation", operation, "Ok")
              [] operation = "RequestResolution" ->
                   /\ process_turn
                   /\ Observe("operation", operation, "Ok")
              [] operation = "ForceTimeout" ->
                   IF timeout_not_reached
                   THEN /\ UNCHANGED stateVars
                        /\ Observe("operation", operation, "TimeoutNotReached")
                   ELSE /\ is_active' = FALSE
                        /\ UNCHANGED <<battle_id, region_chain, position_x,
                                       position_y, current_turn, max_turns,
                                       turn_duration_micros, start_time_micros,
                                       combatants, combatant_count, turn_records,
                                       war_bonds>>
                        /\ Observe("operation", operation, "Ok")
              [] operation = "ExtendWarBond" ->
                   /\ UNCHANGED stateVars
                   /\ Observe("operation", operation, "Ok")
    /\ UNCHANGED <<now_micros, combatVars, commonVars>>

\* async fn execute_message(&mut self, message)
execute_message(message) ==
    /\ message \in Messages
    /\ IF message = "ForceTimeout"
       THEN /\ is_active' = FALSE
            /\ UNCHANGED <<battle_id, region_chain, position_x, position_y,
                           current_turn, max_turns, turn_duration_micros,
                           start_time_micros, combatants, combatant_count,
                           turn_records, war_bonds>>
       ELSE UNCHANGED stateVars
    /\ Observe("message", message, "None")
    /\ UNCHANGED <<now_micros, combatVars, commonVars>>

\* a submitted command resolved on the spot
SubmitCommand_resolving ==
    /\ execute_operation("RequestResolution")

\* one action per operation and per message
SubmitCommand ==
    /\ execute_operation("SubmitCommand")
RequestResolution ==
    /\ execute_operation("RequestResolution")
ForceTimeout ==
    /\ execute_operation("ForceTimeout")
ExtendWarBond ==
    /\ execute_operation("ExtendWarBond")
MsgInitializeBattle ==
    /\ execute_message("InitializeBattle")
MsgSubmitCommand ==
    /\ execute_message("SubmitCommand")
MsgRequestResolution ==
    /\ execute_message("RequestResolution")
MsgForceTimeout ==
    /\ execute_message("ForceTimeout")
MsgBattleResult ==
    /\ execute_message("BattleResult")

\* the host's system time between two blocks: monotonic
Tick ==
    /\ now_micros < MaxNow
    /\ now_micros' = now_micros + 1
    /\ UNCHANGED <<stateVars, obsVars, combatVars, commonVars>>

-----------------------------------------------------------------------------
(* Spec: one battle chain *)

NoStep == [kind |-> "none", name |-> "none", response |-> "None", at |-> 0]
NoEnd  == [kind |-> "none", name |-> "none"]

\* no pure function applied
PureIdle ==
    /\ call = "none"
    /\ args = << >>
    /\ result = << >>

\* no flight path under construction
FlightIdle == flight = [pc |-> "idle"]

\* RegionState::initialize(0, 0, 0) on empty views, nothing handled
RegionIdle ==
    /\ sector_x = 0
    /\ sector_y = 0
    /\ universe_seed = 0
    /\ fleets = << >>
    /\ fleet_count = 0
    /\ planets = << >>
    /\ planet_count = 0
    /\ debris = << >>
    /\ debris_count = 0
    /\ battles = << >>
    /\ battle_count = 0
    /\ is_subdivided = FALSE
    /\ region_last = [kind |-> "none", name |-> "none", response |-> "None"]

CommonIdle == PureIdle /\ FlightIdle /\ RegionIdle

CombatIdle ==
    /\ attacker = NewCombatant("attacker_chain", <<>>, FALSE)
    /\ defender = NewCombatant("defender_chain", <<>>, TRUE)
    /\ damage = <<0, 0>>
    /\ losses = << <<>>, <<>> >>
    /\ stage = "idle"
    /\ rounds = 0

Init ==
    /\ \E p_max_turns \in 0..MaxTurns, p_turn_duration \in 0..MaxDuration,
          now \in 0..MaxStart, attacker_ships \in BattleFleets,
          defender_ships \in BattleFleets :
            instantiate(p_max_turns, p_turn_duration, now,
                        attacker_ships, defender_ships)
    /\ last = NoStep
    /\ ok_resolutions = 0
    /\ ended_by = NoEnd
    /\ CombatIdle
    /\ CommonIdle

Next ==
    \/ SubmitCommand
    \/ RequestResolution
    \/ ForceTimeout
    \/ ExtendWarBond
    \/ MsgInitializeBattle
    \/ MsgSubmitCommand
    \/ MsgRequestResolution
    \/ MsgForceTimeout
    \/ MsgBattleResult
    \/ Tick

Spec == Init /\ [][Next]_vars

-----------------------------------------------------------------------------
(* SpecCombat: combat.rs applied to bounded inputs *)

\* a ship vector of n types, c ships of type index i and d of the next type
\* (i is 1-based here; i = 0 populates only the type after it)
FleetOf(n, i, c, d) ==
    [k \in 1..n |-> IF k = i THEN c ELSE IF k = i + 1 THEN d ELSE 0]

\* the fleets of the end-to-end scenario of the specification
ScenarioAttacker == <<10>>
ScenarioDefender == <<0, 5>>

\* generated fleets: empty, one populated type, or two neighbouring ones,
\* over every length up to MaxLen; and the two scenario fleets
Fleets ==
    UNION { { FleetOf(n, i, c, d) : i \in 0..n, c \in 0..MaxCount, d \in 0..MaxCount }
            : n \in 0..MaxLen }
    \cup { ScenarioAttacker, ScenarioDefender }

BattleIdle ==
    /\ instantiate(1, 1, 0, <<>>, <<>>)
    /\ last = NoStep
    /\ ok_resolutions = 0
    /\ ended_by = NoEnd

InitCombat ==
    /\ BattleIdle
    /\ \E a \in Fleets, d \in Fleets :
          /\ attacker = NewCombatant("attacker_chain", a, FALSE)
          /\ defender = NewCombatant("defender_chain", d, TRUE)
    /\ damage = <<0, 0>>
    /\ losses = << <<>>, <<>> >>
    /\ stage = "start"
    /\ rounds = 0
    /\ CommonIdle

\* let (attacker_damage, defender_damage) = calculate_damage(&attacker, &defender)
CalcDamage ==
    /\ stage = "start"
    /\ rounds < MaxRounds
    /\ damage' = calculate_damage(attacker, defender)
    /\ stage' = "damage"
    /\ UNCHANGED <<attacker, defender, losses, rounds, battleVars, commonVars>>

\* each side's losses for the damage the other side deals
CalcLosses ==
    /\ stage = "damage"
    /\ losses' = << calculate_losses(attacker, damage[2]),
                    calculate_losses(defender, damage[1]) >>
    /\ stage' = "losses"
    /\ UNCHANGED <<attacker, defender, damage, rounds, battleVars, commonVars>>

\* apply_losses on both sides; the round is over
ApplyLosses ==
    /\ stage = "losses"
    /\ attacker' = apply_losses(attacker, losses[1])
    /\ defender' = apply_losses(defender, losses[2])
    /\ stage' = "start"
    /\ rounds' = rounds + 1
    /\ UNCHANGED <<damage, losses, battleVars, commonVars>>

NextCombat ==
    \/ CalcDamage
    \/ CalcLosses
    \/ ApplyLosses

SpecCombat == InitCombat /\ [][NextCombat]_vars

-----------------------------------------------------------------------------
(* calculate_losses, apply_losses and is_defeated on their own (SpecLosses):
   one call on bounded inputs, the damage budget no longer tied to
   calculate_damage *)

MaxVec   == 2      \* longest remaining_ships vector; losses may be one longer
MaxShips == 2      \* largest remaining count; a loss entry may be one larger

\* hit points of the ships of `ships` in front of index i (1-based)
RECURSIVE hit_points_before(_, _)
hit_points_before(ships, i) ==
    IF i <= 1 THEN 0
    ELSE hit_points_before(ships, i - 1) + ships[i - 1] * hp_per_ship(i - 2)

\* damage budgets at the edges of what the fleet can absorb: whole ships of
\* one type, one hit point less and one more, with and without the types in
\* front destroyed, up to one ship more than the fleet has
BudgetsFor(ships) ==
    { b \in {0, 1} \cup
            UNION { { pre + k * hp_per_ship(i - 1) + d :
                        pre \in {0, hit_points_before(ships, i)},
                        k \in 0..(ships[i] + 1), d \in {-1, 0, 1} }
                    : i \in 1..Len(ships) }
        : b >= 0 }

\* every vector of length 0..n over 0..m
Vectors(n, m) == UNION { [1..k -> 0..m] : k \in 0..n }

\* the arguments of one call of calculate_losses
LossesInputs ==
    UNION { { [combatant |-> NewCombatant("chain", f, FALSE), damage |-> b]
              : b \in BudgetsFor(f) } : f \in Fleets }

\* the arguments of one call of apply_losses: a combatant part-way through a
\* battle and a loss vector of any length up to one more than its own
ApplyInputs ==
    { [combatant |-> [NewCombatant("chain", r, FALSE) EXCEPT !.ships = r],
       losses    |-> ls]
      : r \in Vectors(MaxVec, MaxShips), ls \in Vectors(MaxVec + 1, MaxShips + 1) }

InitLosses ==
    /\ BattleIdle
    /\ CombatIdle
    /\ FlightIdle
    /\ RegionIdle
    /\ call = "none"
    /\ result = << >>
    /\ \/ args \in LossesInputs
       \/ args \in ApplyInputs

\* let losses = calculate_losses(&combatant, damage)
CallCalculateLosses ==
    /\ call = "none"
    /\ "damage" \in DOMAIN args
    /\ call' = "calculate_losses"
    /\ result' = calculate_losses(args.combatant, args.damage)
    /\ UNCHANGED <<args, flight, regionVars, battleVars, combatVars>>

\* apply_losses(&mut combatant, &losses), then is_defeated(&combatant)
CallApplyLosses ==
    /\ call = "none"
    /\ "losses" \in DOMAIN args
    /\ call' = "apply_losses"
    /\ result' = LET c == apply_losses(args.combatant, args.losses)
                 IN  [combatant |-> c, is_defeated |-> is_defeated(c)]
    /\ UNCHANGED <<args, flight, regionVars, battleVars, combatVars>>

NextLosses ==
    \/ CallCalculateLosses
    \/ CallApplyLosses

SpecLosses == InitLosses /\ [][NextLosses]_vars

-----------------------------------------------------------------------------
(* common/src/crypto.rs: the fleet commitment (SpecCrypto) *)

MaxFleetShips == 2     \* longest Fleet.ships
MaxShipType   == 1     \* largest ShipType discriminant used
MaxStat       == 1     \* largest small health / experience value

\* the low n bytes of v >= 0, least significant first
RECURSIVE unsigned_le_bytes(_, _)
unsigned_le_bytes(v, n) ==
    IF n = 0 THEN << >>
    ELSE <<v % 256>> \o unsigned_le_bytes(v \div 256, n - 1)

\* the bytes of the magnitude, the sign dropped
to_le_bytes_magnitude(v, n) == unsigned_le_bytes(IF v >= 0 THEN v ELSE -v, n)

\* iN::to_le_bytes / uN::to_le_bytes with N = 8 * n: two's complement, so
\* the bytes of v < 0 are the complemented bytes of -v - 1
to_le_bytes(v, n) ==
    IF v >= 0 THEN unsigned_le_bytes(v, n)
    ELSE LET b == unsigned_le_bytes(-v - 1, n)
         IN  [k \in 1..n |-> 255 - b[k]]

\* BCS: a sequence length or enum variant index as ULEB128
RECURSIVE uleb128(_)
uleb128(n) ==
    IF n < 128 THEN <<n>>
    ELSE <<128 + (n % 128)>> \o uleb128(n \div 128)

\* n zero bytes
zero_bytes(n) == [k \in 1..n |-> 0]

\* the serialization of a Ship with the experience field left out
bcs_ship_without_experience(ship) ==
    uleb128(ship.ship_type) \o to_le_bytes(ship.health, 4)

\* BCS of Ship { ship_type: ShipType, health: u32, experience: u32 }
bcs_ship(ship) ==
    uleb128(ship.ship_type) \o to_le_bytes(ship.health, 4)
        \o to_le_bytes(ship.experience, 4)

\* BCS of Vec<Ship> from element i onward
RECURSIVE bcs_ships_from(_, _)
bcs_ships_from(ships, i) ==
    IF i > Len(ships) THEN << >>
    ELSE bcs_ship(ships[i]) \o bcs_ships_from(ships, i + 1)

\* bcs::to_bytes(fleet): the fields of Fleet in declaration order. Owner and
\* owner chain are 32-byte hashes (the owner behind a variant index), cargo
\* three u128, position two i64, state FleetState::Idle (variant 0).
\* Serialization fails only on a sequence of more than 2^31 - 1 elements,
\* which no fleet in contract memory has, so unwrap_or_default() returns
\* these bytes.
bcs_to_bytes(fleet) ==
    to_le_bytes(fleet.id, 8)
        \o (uleb128(0) \o zero_bytes(32))
        \o zero_bytes(32)
        \o (uleb128(Len(fleet.ships)) \o bcs_ships_from(fleet.ships, 1))
        \o (zero_bytes(16) \o zero_bytes(16) \o zero_bytes(16))
        \o (to_le_bytes(fleet.position[1], 8) \o to_le_bytes(fleet.position[2], 8))
        \o uleb128(0)
        \o to_le_bytes(fleet.last_update, 8)

\* Sha3_256 over the bytes fed to the hasher, as a collision-free function:
\* the digest stands for its preimage
Sha3_256(bytes) == <<"Sha3_256", bytes>>

\* pub fn commit_fleet(fleet: &Fleet, salt: &Salt) -> CommitHash
commit_fleet(fleet, salt) == Sha3_256(bcs_to_bytes(fleet) \o salt)

\* pub fn verify_fleet_reveal(fleet, salt, commitment) -> bool
verify_fleet_reveal(fleet, salt, commitment) ==
    commit_fleet(fleet, salt) = commitment

\* Ship::new(ShipType::Scout): max_health 50, no experience
NewScout == [ship_type |-> 0, health |-> 50, experience |-> 0]

\* ships with small and with multi-byte health
Ships ==
    [ship_type : 0..MaxShipType, health : (0..MaxStat) \cup {256},
     experience : 0..MaxStat]

\* fleets of up to MaxFleetShips new scouts, one ship of which is any ship
FleetShips ==
    UNION { { [k \in 1..n |-> IF k = p THEN sh ELSE NewScout]
              : p \in 1..n, sh \in Ships } : n \in 0..MaxFleetShips }

\* Fleet::new(1, owner, owner_chain, ships, Coordinate::new(0, 0), 0)
NewFleet(ships) ==
    [id |-> 1, ships |-> ships, position |-> <<0, 0>>, last_update |-> 0]

\* 32-byte salts: all zero, and with the first or the last byte set
Salts ==
    { zero_bytes(32) } \cup
    { [k \in 1..32 |-> IF k = p THEN 1 ELSE 0] : p \in {1, 32} }

\* b"LINERA_DOMINION_PROCEDURAL_V1"
PROCEDURAL_TAG ==
    <<76, 73, 78, 69, 82, 65, 95, 68, 79, 77, 73, 78, 73, 79, 78, 95,
      80, 82, 79, 67, 69, 68, 85, 82, 65, 76, 95, 86, 49>>

\* purpose.as_bytes() of the three purposes in use
as_bytes(purpose) ==
    CASE purpose = "has_planet"  -> <<104, 97, 115, 95, 112, 108, 97, 110, 101, 116>>
      [] purpose = "planet_type" -> <<112, 108, 97, 110, 101, 116, 95, 116, 121, 112, 101>>
      [] purpose = "planet_name" -> <<112, 108, 97, 110, 101, 116, 95, 110, 97, 109, 101>>

\* the digest with the purpose left out of the bytes hashed
procedural_hash_unpurposed(seed, x, y, purpose) ==
    Sha3_256(PROCEDURAL_TAG \o seed \o to_le_bytes(x, 8) \o to_le_bytes(y, 8))

\* pub fn procedural_hash(seed, x, y, purpose) -> [u8; 32]
procedural_hash(seed, x, y, purpose) ==
    Sha3_256(PROCEDURAL_TAG \o seed \o to_le_bytes(x, 8) \o to_le_bytes(y, 8)
                 \o as_bytes(purpose))

\* hash[k]: the bytes a digest starts with are whatever SHA3 yields for the
\* bytes hashed, one value per byte string, any value for the model
hash_byte(hash, k) == args.digest[hash][k + 1]

PREFIXES ==
    <<"Al", "Bel", "Cor", "Dra", "El", "Far", "Gal", "Hel",
      "Ion", "Kel", "Lyr", "Mal", "Neb", "Ori", "Pax", "Qua",
      "Rig", "Sol", "Tau", "Ura", "Veg", "Wol", "Xen", "Yed", "Zet">>

MIDDLES ==
    <<"ar", "en", "ir", "on", "ur", "ax", "ex", "ix", "ox", "ux",
      "an", "in", "un", "as", "is", "os", "us", "at", "et", "it">>

SUFFIXES ==
    <<"a", "i", "o", "us", "is", "on", "ar", "or", "ix", "ax",
      "ia", "io", "ius", "ium", "ara", "ora", "ira", "ura", "era">>

\* pub fn generate_planet_name(seed, x, y) -> String, with the three indices
generate_planet_name(seed, x, y) ==
    LET hash       == procedural_hash(seed, x, y, "planet_name")
        prefix_idx == hash_byte(hash, 0) % Len(PREFIXES)
        middle_idx == hash_byte(hash, 1) % Len(MIDDLES)
        suffix_idx == hash_byte(hash, 2) % Len(SUFFIXES)
    IN  [name    |-> PREFIXES[prefix_idx + 1] \o MIDDLES[middle_idx + 1]
                         \o SUFFIXES[suffix_idx + 1],
         indices |-> <<prefix_idx, middle_idx, suffix_idx>>]

\* the arm of `match hash[0] % 100` taken, 1..7, the seventh being `_`
planet_type_arm(b) ==
    LET m == b % 100
    IN  CASE m \in 0..24  -> 1
          [] m \in 25..44 -> 2
          [] m \in 45..64 -> 3
          [] m \in 65..79 -> 4
          [] m \in 80..89 -> 5
          [] m \in 90..99 -> 6
          [] OTHER        -> 7

\* pub fn generate_planet_type(seed, x, y) -> PlanetType, with the arm taken
generate_planet_type(seed, x, y) ==
    LET hash == procedural_hash(seed, x, y, "planet_type")
        arm  == planet_type_arm(hash_byte(hash, 0))
    IN  [planet_type |-> <<"Terrestrial", "Metallic", "GasGiant", "Barren",
                           "Volcanic", "Temporal", "Terrestrial">>[arm],
         arm         |-> arm]

\* the comparison written `<=`
has_planet_inclusive(seed, x, y) ==
    hash_byte(procedural_hash(seed, x, y, "has_planet"), 0) <= 38

\* pub fn has_planet(seed, x, y) -> bool
has_planet(seed, x, y) ==
    hash_byte(procedural_hash(seed, x, y, "has_planet"), 0) < 38

\* leading digest bytes: every value of byte 0 (bytes 1 and 2 equal to it),
\* and all combinations of values at the edges of the three name tables
DigestHeads ==
    { <<b, b, b>> : b \in 0..255 }
        \cup [1..3 -> {0, 18, 19, 20, 24, 25, 255}]

\* a seed, a coordinate, the function called on them by its purpose, and
\* what SHA3 yields for the bytes that function hashes
PlanetInputs ==
    UNION { { [seed |-> sd, x |-> c[1], y |-> c[2], purpose |-> p,
               digest |-> (procedural_hash(sd, c[1], c[2], p) :> h)]
              : h \in DigestHeads }
            : sd \in { zero_bytes(32) }, c \in { <<10, 20>>, <<11, 20>>, <<-1, 0>> },
              p \in {"has_planet", "planet_type", "planet_name"} }

\* let a = has_planet(&seed, x, y); let b = has_planet(&seed, x, y)
CallHasPlanet ==
    /\ call = "none"
    /\ "purpose" \in DOMAIN args
    /\ args.purpose = "has_planet"
    /\ call' = "has_planet"
    /\ result' = <<has_planet(args.seed, args.x, args.y),
                   has_planet(args.seed, args.x, args.y)>>
    /\ UNCHANGED <<args, flight, regionVars, battleVars, combatVars>>

\* generate_planet_type(&seed, x, y), twice
CallGeneratePlanetType ==
    /\ call = "none"
    /\ "purpose" \in DOMAIN args
    /\ args.purpose = "planet_type"
    /\ call' = "generate_planet_type"
    /\ result' = <<generate_planet_type(args.seed, args.x, args.y),
                   generate_planet_type(args.seed, args.x, args.y)>>
    /\ UNCHANGED <<args, flight, regionVars, battleVars, combatVars>>

\* generate_planet_name(&seed, x, y), twice
CallGeneratePlanetName ==
    /\ call = "none"
    /\ "purpose" \in DOMAIN args
    /\ args.purpose = "planet_name"
    /\ call' = "generate_planet_name"
    /\ result' = <<generate_planet_name(args.seed, args.x, args.y),
                   generate_planet_name(args.seed, args.x, args.y)>>
    /\ UNCHANGED <<args, flight, regionVars, battleVars, combatVars>>

\* a fleet and salt to commit to, and the fleet and salt disclosed later;
\* or the arguments of a procedural generation function
InitCrypto ==
    /\ BattleIdle
    /\ CombatIdle
    /\ FlightIdle
    /\ RegionIdle
    /\ call = "none"
    /\ result = << >>
    /\ \/ args \in [ fleet : { NewFleet(sh) : sh \in FleetShips }, salt : Salts,
                      revealed_fleet : { NewFleet(sh) : sh \in FleetShips },
                      revealed_salt : Salts ]
       \/ args \in PlanetInputs

\* let commitment = commit_fleet(&fleet, &salt)
CallCommitFleet ==
    /\ call = "none"
    /\ "revealed_fleet" \in DOMAIN args
    /\ call' = "commit_fleet"
    /\ result' = [commitment |-> commit_fleet(args.fleet, args.salt)]
    /\ UNCHANGED <<args, flight, regionVars, battleVars, combatVars>>

\* verify_fleet_reveal(&revealed_fleet, &revealed_salt, &commitment)
CallVerifyFleetReveal ==
    /\ call = "commit_fleet"
    /\ call' = "verify_fleet_reveal"
    /\ result' = [commitment |-> result.commitment,
                  verified   |-> verify_fleet_reveal(args.revealed_fleet,
                                     args.revealed_salt, result.commitment)]
    /\ UNCHANGED <<args, flight, regionVars, battleVars, combatVars>>

NextCrypto ==
    \/ CallCommitFleet
    \/ CallVerifyFleetReveal
    \/ CallHasPlanet
    \/ CallGeneratePlanetType
    \/ CallGeneratePlanetName

SpecCrypto == InitCrypto /\ [][NextCrypto]_vars

-----------------------------------------------------------------------------
(* common/src/crypto.rs Commitment<T>; region/src/contract.rs (SpecRegion) *)

MaxFleetCount  == 3    \* FleetEnter messages handled
MaxBattleCount == 1    \* DeclareHostility operations handled

\* Commitment::new(data, salt, timestamp)
Commitment_new(data_bytes, salt, timestamp) ==
    [hash |-> Sha3_256(data_bytes \o salt), created_at |-> timestamp,
     revealed |-> FALSE]

\* fleet_id of the fleets that enter, leave, reveal and are scanned
FleetIds == {1, 2}

\* what a FleetReveal discloses: ship_counts: Vec<u32>, salt: String
RevealCounts == { <<1>>, <<2>> }
RevealSalts  == { "salt_a", "salt_b" }

\* the commitment string a fleet owner sends with FleetEnter: the digest of
\* the ship counts and the salt it will disclose (computed off this chain)
fleet_commitment(ship_counts, reveal_salt) == <<"digest", ship_counts, reveal_salt>>

\* commitment_hash of the FleetEnter messages delivered
CommitmentHashes == { fleet_commitment(c, "salt_a") : c \in RevealCounts }

\* self.runtime.system_time().micros(): only stored, never read by the Region
\* chain, so one value stands for all
system_time_micros == 0

\* RegionContract::instantiate -> RegionState::initialize
region_instantiate(p_sector_x, p_sector_y, p_universe_seed) ==
    /\ sector_x = p_sector_x
    /\ sector_y = p_sector_y
    /\ universe_seed = p_universe_seed
    /\ fleets = << >>
    /\ fleet_count = 0
    /\ planets = << >>
    /\ planet_count = 0
    /\ debris = << >>
    /\ debris_count = 0
    /\ battles = << >>
    /\ battle_count = 0
    /\ is_subdivided = FALSE

\* MapView::insert(&key, value)
map_insert(map, key, value) ==
    [k \in DOMAIN map \cup {key} |-> IF k = key THEN value ELSE map[k]]

\* MapView::remove(&key)
map_remove(map, key) == [k \in DOMAIN map \ {key} |-> map[k]]

\* `for i in 0..count { if let Ok(Some(f)) = fleets.get(&i) { if f.fleet_id == id`:
\* the keys the loop can stop at
matching_keys(id) ==
    { i \in 0..(fleet_count - 1) : i \in DOMAIN fleets /\ fleets[i].fleet_id = id }

\* the first of them
first_match(id) == CHOOSE i \in matching_keys(id) : \A j \in matching_keys(id) : i <= j

\* the number of records present taken for the key
next_fleet_key_reused == Cardinality(DOMAIN fleets)

\* let count = *self.state.fleet_count.get(), the key FleetEnter inserts at
next_fleet_key == fleet_count

\* what a step of the Region chain leaves to observe
RegionObserve(kind, name, response) ==
    region_last' = [kind |-> kind, name |-> name, response |-> response]

\* Operation::ClaimPlanet / ResupplyPlanet / AbandonPlanet / ProcessStakeDecay:
\* planets.get(&planet_id) is None for every id, no handler inserts a planet
region_planet_operation(name) ==
    /\ planets = << >>
    /\ RegionObserve("operation", name, "Ok")
    /\ UNCHANGED <<regionState, pureVars, flight, battleVars, combatVars>>

ClaimPlanet ==
    /\ region_planet_operation("ClaimPlanet")

ResupplyPlanet ==
    /\ region_planet_operation("ResupplyPlanet")

AbandonPlanet ==
    /\ region_planet_operation("AbandonPlanet")

ProcessStakeDecay ==
    /\ region_planet_operation("ProcessStakeDecay")

\* Operation::ScanFleet { target_fleet_id, scanner_fleet_id: _ }
scan_fleet(target_fleet_id) ==
    /\ IF matching_keys(target_fleet_id) # {}
       THEN LET i == first_match(target_fleet_id)
            IN  /\ fleets' = map_insert(fleets, i, [fleets[i] EXCEPT !.revealed = TRUE])
                /\ RegionObserve("operation", "ScanFleet", "Ok")
       ELSE /\ fleets' = fleets
            /\ RegionObserve("operation", "ScanFleet", "FleetNotFound")
    /\ UNCHANGED <<sector_x, sector_y, universe_seed, fleet_count, planets,
                   planet_count, debris, debris_count, battles, battle_count,
                   is_subdivided, pureVars, flight, battleVars, combatVars>>

ScanFleet ==
    /\ \E target_fleet_id \in FleetIds : scan_fleet(target_fleet_id)

\* Operation::DeclareHostility { attacker_fleet_id, target_fleet_id }
DeclareHostility ==
    /\ battle_count < MaxBattleCount
    /\ battles' = map_insert(battles, battle_count,
                      [battle_id |-> battle_count, battle_chain |-> "", x |-> 0,
                       y |-> 0, started_at_micros |-> system_time_micros])
    /\ battle_count' = battle_count + 1
    /\ RegionObserve("operation", "DeclareHostility", "Ok")
    /\ UNCHANGED <<sector_x, sector_y, universe_seed, fleets, fleet_count, planets,
                   planet_count, debris, debris_count, is_subdivided,
                   pureVars, flight, battleVars, combatVars>>

\* Operation::CollectDebris { fleet_id, debris_id }
collect_debris(fleet_id, debris_id) ==
    /\ IF matching_keys(fleet_id) = {}
       THEN /\ debris' = debris
            /\ RegionObserve("operation", "CollectDebris", "FleetNotInSector")
       ELSE /\ debris' = map_remove(debris, debris_id)
            /\ RegionObserve("operation", "CollectDebris", "Ok")
    /\ UNCHANGED <<sector_x, sector_y, universe_seed, fleets, fleet_count, planets,
                   planet_count, debris_count, battles, battle_count,
                   is_subdivided, pureVars, flight, battleVars, combatVars>>

CollectDebris ==
    /\ \E fleet_id \in FleetIds : collect_debris(fleet_id, 0)

\* Message::FleetEnter { fleet_id, owner: _, owner_chain: _, x, y, commitment_hash }
fleet_enter(fleet_id, x, y, commitment_hash) ==
    /\ fleet_count < MaxFleetCount
    /\ fleets' = map_insert(fleets, next_fleet_key,
                     [fleet_id          |-> fleet_id,
                      owner_chain       |-> "",
                      position_x        |-> x,
                      position_y        |-> y,
                      commitment_hash   |-> commitment_hash,
                      arrived_at_micros |-> system_time_micros,
                      revealed          |-> FALSE])
    /\ fleet_count' = fleet_count + 1
    /\ RegionObserve("message", "FleetEnter", "None")
    /\ UNCHANGED <<sector_x, sector_y, universe_seed, planets, planet_count, debris,
                   debris_count, battles, battle_count, is_subdivided,
                   pureVars, flight, battleVars, combatVars>>

MsgFleetEnter ==
    /\ \E fleet_id \in FleetIds, commitment_hash \in CommitmentHashes :
          fleet_enter(fleet_id, 0, 0, commitment_hash)

\* Message::FleetLeave { fleet_id }
fleet_leave(fleet_id) ==
    /\ fleets' = IF matching_keys(fleet_id) # {}
                 THEN map_remove(fleets, first_match(fleet_id))
                 ELSE fleets
    /\ RegionObserve("message", "FleetLeave", "None")
    /\ UNCHANGED <<sector_x, sector_y, universe_seed, fleet_count, planets,
                   planet_count, debris, debris_count, battles, battle_count,
                   is_subdivided, pureVars, flight, battleVars, combatVars>>

MsgFleetLeave ==
    /\ \E fleet_id \in FleetIds : fleet_leave(fleet_id)

\* Message::FleetReveal { fleet_id, ship_counts: _, salt: _ }: the disclosed
\* counts and salt are bound to `_` and never read
fleet_reveal(fleet_id, ship_counts, reveal_salt) ==
    /\ fleets' = IF matching_keys(fleet_id) # {}
                 THEN LET i == first_match(fleet_id)
                      IN  map_insert(fleets, i, [fleets[i] EXCEPT !.revealed = TRUE])
                 ELSE fleets
    /\ RegionObserve("message", "FleetReveal", "None")
    /\ UNCHANGED <<sector_x, sector_y, universe_seed, fleet_count, planets,
                   planet_count, debris, debris_count, battles, battle_count,
                   is_subdivided, pureVars, flight, battleVars, combatVars>>

MsgFleetReveal ==
    /\ \E fleet_id \in FleetIds, ship_counts \in RevealCounts,
          reveal_salt \in RevealSalts :
          fleet_reveal(fleet_id, ship_counts, reveal_salt)

\* Message::BattleResolved and `_ => {}` (BattleInitiated, PlanetClaimed)
region_ignored_message(name) ==
    /\ RegionObserve("message", name, "None")
    /\ UNCHANGED <<regionState, pureVars, flight, battleVars, combatVars>>

MsgBattleInitiated ==
    /\ region_ignored_message("BattleInitiated")

MsgBattleResolved ==
    /\ region_ignored_message("BattleResolved")

MsgPlanetClaimed ==
    /\ region_ignored_message("PlanetClaimed")

InitRegion ==
    /\ BattleIdle
    /\ CombatIdle
    /\ PureIdle
    /\ FlightIdle
    /\ region_instantiate(0, 0, 0)
    /\ region_last = [kind |-> "none", name |-> "none", response |-> "None"]

NextRegion ==
    \/ ClaimPlanet
    \/ ResupplyPlanet
    \/ AbandonPlanet
    \/ ScanFleet
    \/ DeclareHostility
    \/ CollectDebris
    \/ ProcessStakeDecay
    \/ MsgFleetEnter
    \/ MsgFleetLeave
    \/ MsgFleetReveal
    \/ MsgBattleInitiated
    \/ MsgBattleResolved
    \/ MsgPlanetClaimed

SpecRegion == InitRegion /\ [][NextRegion]_vars

-----------------------------------------------------------------------------
(* common/src/coordinates.rs: sectors (SpecCoords) *)

MaxCoord      == 4     \* coordinates and sectors lie in -MaxCoord..MaxCoord
MaxSectorSize == 3     \* sector sizes are 1..MaxSectorSize

\* i64 `/`: the quotient rounded toward zero
div_truncating(a, b) ==
    IF a >= 0 THEN a \div b ELSE -((-a) \div b)

\* i64::div_euclid for rhs > 0: `let q = self / rhs; if self % rhs < 0
\* { return q - 1 } q`
div_euclid(a, b) ==
    LET q == div_truncating(a, b)
        r == a - q * b
    IN  IF r < 0 THEN q - 1 ELSE q

\* pub fn to_sector(&self, sector_size: i64) -> SectorCoordinate
to_sector(c, sector_size) ==
    [x |-> div_euclid(c.x, sector_size), y |-> div_euclid(c.y, sector_size)]

\* pub fn in_sector(&self, sector, sector_size) -> bool
in_sector(c, sector, sector_size) == to_sector(c, sector_size) = sector

\* b"LINERA_DOMINION_SECTOR_V1"
SECTOR_TAG ==
    <<76, 73, 78, 69, 82, 65, 95, 68, 79, 77, 73, 78, 73, 79, 78, 95,
      83, 69, 67, 84, 79, 82, 95, 86, 49>>

\* pub fn to_chain_id_bytes(&self, universe_seed: &[u8; 32]) -> [u8; 32]
to_chain_id_bytes(sector, seed) ==
    Sha3_256(SECTOR_TAG \o to_le_bytes(sector.x, 8) \o to_le_bytes(sector.y, 8)
                 \o seed)

\* the array with its fifth entry written as the sector itself
adjacent_sectors_centre(sector) ==
    << [x |-> sector.x - 1, y |-> sector.y - 1],
       [x |-> sector.x,     y |-> sector.y - 1],
       [x |-> sector.x + 1, y |-> sector.y - 1],
       [x |-> sector.x - 1, y |-> sector.y],
       [x |-> sector.x,     y |-> sector.y],
       [x |-> sector.x - 1, y |-> sector.y + 1],
       [x |-> sector.x,     y |-> sector.y + 1],
       [x |-> sector.x + 1, y |-> sector.y + 1] >>

\* pub fn adjacent_sectors(&self) -> [SectorCoordinate; 8]
adjacent_sectors(sector) ==
    << [x |-> sector.x - 1, y |-> sector.y - 1],
       [x |-> sector.x,     y |-> sector.y - 1],
       [x |-> sector.x + 1, y |-> sector.y - 1],
       [x |-> sector.x - 1, y |-> sector.y],
       [x |-> sector.x + 1, y |-> sector.y],
       [x |-> sector.x - 1, y |-> sector.y + 1],
       [x |-> sector.x,     y |-> sector.y + 1],
       [x |-> sector.x + 1, y |-> sector.y + 1] >>

\* i64::unsigned_abs
unsigned_abs(v) == IF v < 0 THEN -v ELSE v

\* pub fn sector_distance(&self, other) -> u64
sector_distance(a, b) ==
    LET dx == unsigned_abs(a.x - b.x)
        dy == unsigned_abs(a.y - b.y)
    IN  IF dx >= dy THEN dx ELSE dy

\* the axis value 0 counted as negative
quadrant_zero_negative(sector) ==
    CASE sector.x > 0 /\ sector.y > 0       -> "NorthEast"
      [] ~(sector.x > 0) /\ sector.y > 0    -> "NorthWest"
      [] ~(sector.x > 0) /\ ~(sector.y > 0) -> "SouthWest"
      [] sector.x > 0 /\ ~(sector.y > 0)    -> "SouthEast"

\* pub fn quadrant(&self) -> Quadrant: match (self.x >= 0, self.y >= 0)
quadrant(sector) ==
    LET pair == <<sector.x >= 0, sector.y >= 0>>
    IN  CASE pair = <<TRUE, TRUE>>   -> "NorthEast"
          [] pair = <<FALSE, TRUE>>  -> "NorthWest"
          [] pair = <<FALSE, FALSE>> -> "SouthWest"
          [] pair = <<TRUE, FALSE>>  -> "SouthEast"

\* the points, as coordinates or as sectors, within n of the origin
Square(n) == [x : (-n)..n, y : (-n)..n]

\* coordinates with small sector sizes, and the negative coordinate of
\* test_negative_sector with sector size 100
SectorInputs ==
    [c : Square(MaxCoord), sector_size : 1..MaxSectorSize]
        \cup { [c |-> [x |-> -150, y |-> -250], sector_size |-> 100] }

\* sector coordinates on both sides of a byte boundary and of zero
IdSectors ==
    [x : ((-1)..1) \cup {255, 256, -256}, y : ((-1)..1) \cup {255}]

\* two sectors to compare the ids of, each with its universe seed
IdInputs ==
    [a : [sector : IdSectors, seed : Salts], b : [sector : IdSectors, seed : Salts]]

InitCoords ==
    /\ BattleIdle
    /\ CombatIdle
    /\ FlightIdle
    /\ RegionIdle
    /\ call = "none"
    /\ result = << >>
    /\ \/ args \in SectorInputs
       \/ args \in IdInputs
       \/ args \in [sector : Square(MaxCoord)]

\* c.to_sector(sector_size), and c.in_sector(sec, sector_size) for every
\* sector around
CallToSector ==
    /\ call = "none"
    /\ "sector_size" \in DOMAIN args
    /\ call' = "to_sector"
    /\ result' = [sector     |-> to_sector(args.c, args.sector_size),
                  in_sectors |-> { sec \in Square(MaxCoord + 1) :
                                      in_sector(args.c, sec, args.sector_size) }]
    /\ UNCHANGED <<args, flight, regionVars, battleVars, combatVars>>

\* a.sector.to_chain_id_bytes(&a.seed) and the same for b
CallToChainIdBytes ==
    /\ call = "none"
    /\ "a" \in DOMAIN args
    /\ call' = "to_chain_id_bytes"
    /\ result' = [a |-> to_chain_id_bytes(args.a.sector, args.a.seed),
                  b |-> to_chain_id_bytes(args.b.sector, args.b.seed)]
    /\ UNCHANGED <<args, flight, regionVars, battleVars, combatVars>>

\* sector.adjacent_sectors(), and the sectors around at sector_distance 1
CallAdjacentSectors ==
    /\ call = "none"
    /\ DOMAIN args = {"sector"}
    /\ call' = "adjacent_sectors"
    /\ result' = [adjacent  |-> adjacent_sectors(args.sector),
                  at_one    |-> { sec \in Square(MaxCoord + 2) :
                                     sector_distance(args.sector, sec) = 1 }]
    /\ UNCHANGED <<args, flight, regionVars, battleVars, combatVars>>

\* sector.quadrant()
CallQuadrant ==
    /\ call = "none"
    /\ DOMAIN args = {"sector"}
    /\ call' = "quadrant"
    /\ result' = quadrant(args.sector)
    /\ UNCHANGED <<args, flight, regionVars, battleVars, combatVars>>

NextCoords ==
    \/ CallQuadrant
    \/ CallToSector
    \/ CallToChainIdBytes
    \/ CallAdjacentSectors

SpecCoords == InitCoords /\ [][NextCoords]_vars

-----------------------------------------------------------------------------
(* common/src/coordinates.rs: FlightPath::direct (SpecFlight) *)

MaxFuel  == 2      \* fuel_per_sector is 0 or MaxFuel
MaxSpeed == 2      \* fleet_speed is 0 or MaxSpeed

\* u64::MAX. The model's integers end at 2^31 - 1, which stands for it:
\* every time computed from a distance in the model is below 10^5.
U64_MAX == 2147483647

\* the largest r in lo..hi with r * r <= n, by bisection
RECURSIVE floor_sqrt(_, _, _)
floor_sqrt(n, lo, hi) ==
    IF lo >= hi THEN lo
    ELSE LET mid == (lo + hi + 1) \div 2
         IN  IF mid * mid <= n THEN floor_sqrt(n, mid, hi)
             ELSE floor_sqrt(n, lo, mid - 1)

\* the early return left out and the speed raised to 1
calculate_travel_time_clamped(from, to, fleet_speed) ==
    LET dx == from.x - to.x
        dy == from.y - to.y
        base_time == floor_sqrt((dx * dx + dy * dy) * 1000000, 0, 40000)
    IN  base_time \div (IF fleet_speed = 0 THEN 1 ELSE fleet_speed)

\* pub fn calculate_travel_time(from, to, fleet_speed: u32) -> u64.
\* distance_to is sqrt(dx*dx + dy*dy) in f64 and base_time is
\* (distance * 1000.0) as u64, the integer part of 1000 * sqrt(dx^2 + dy^2):
\* the square root of (dx^2 + dy^2) * 10^6 rounded down (the f64 error is
\* far smaller than the gap between that root and the next integer).
calculate_travel_time(from, to, fleet_speed) ==
    IF fleet_speed = 0 THEN U64_MAX
    ELSE LET dx == from.x - to.x
             dy == from.y - to.y
             base_time == floor_sqrt((dx * dx + dy * dy) * 1000000, 0, 40000)
         IN  base_time \div fleet_speed

\* i64::signum
signum(v) == IF v > 0 THEN 1 ELSE IF v < 0 THEN -1 ELSE 0

\* the loop left as soon as the x coordinates agree
path_complete_on_x(current, dest_sector) == current.x = dest_sector.x

\* the negation of the loop condition `current != dest_sector`
path_complete(current, dest_sector) == current = dest_sector

\* origins on both sides of zero, destinations anywhere in the square, a
\* fleet that cannot move or can, a flight that costs no fuel or some
InitFlight ==
    /\ BattleIdle
    /\ CombatIdle
    /\ PureIdle
    /\ RegionIdle
    /\ \E origin \in { [x |-> v, y |-> -v] : v \in (-1)..1 },
          destination \in Square(MaxCoord),
          fleet_speed \in {0, MaxSpeed}, fuel_per_sector \in {0, MaxFuel},
          sector_size \in 1..MaxSectorSize :
          flight = [pc |-> "start", origin |-> origin, destination |-> destination,
                    fleet_speed |-> fleet_speed,
                    fuel_per_sector |-> fuel_per_sector, sector_size |-> sector_size]

\* let origin_sector = ..; let dest_sector = ..; let mut waypoints = Vec::new();
\* let mut current = origin_sector
FlightBegin ==
    /\ flight.pc = "start"
    /\ flight' = [pc              |-> "loop",
                  origin          |-> flight.origin,
                  destination     |-> flight.destination,
                  fleet_speed     |-> flight.fleet_speed,
                  fuel_per_sector |-> flight.fuel_per_sector,
                  sector_size     |-> flight.sector_size,
                  origin_sector   |-> to_sector(flight.origin, flight.sector_size),
                  dest_sector     |-> to_sector(flight.destination, flight.sector_size),
                  waypoints       |-> << >>,
                  current         |-> to_sector(flight.origin, flight.sector_size)]
    /\ UNCHANGED <<pureVars, regionVars, battleVars, combatVars>>

\* one pass through the body of `while current != dest_sector`
FlightStep ==
    /\ flight.pc = "loop"
    /\ ~path_complete(flight.current, flight.dest_sector)
    /\ LET dx   == signum(flight.dest_sector.x - flight.current.x)
           dy   == signum(flight.dest_sector.y - flight.current.y)
           next == [x |-> flight.current.x + dx, y |-> flight.current.y + dy]
       IN  flight' = [flight EXCEPT !.current = next,
                                    !.waypoints = Append(@, next)]
    /\ UNCHANGED <<pureVars, regionVars, battleVars, combatVars>>

\* the loop is left: estimated_time = calculate_travel_time(..), fuel_required
\* = waypoints.len() as u128 * fuel_per_sector as u128, and the FlightPath is
\* returned (its total_distance, an f64 nothing here reads, is left out)
FlightFinish ==
    /\ flight.pc = "loop"
    /\ path_complete(flight.current, flight.dest_sector)
    /\ flight' = [pc              |-> "done",
                  origin          |-> flight.origin,
                  destination     |-> flight.destination,
                  fleet_speed     |-> flight.fleet_speed,
                  fuel_per_sector |-> flight.fuel_per_sector,
                  sector_size     |-> flight.sector_size,
                  origin_sector   |-> flight.origin_sector,
                  dest_sector     |-> flight.dest_sector,
                  waypoints       |-> flight.waypoints,
                  estimated_time  |-> calculate_travel_time(flight.origin,
                                          flight.destination, flight.fleet_speed),
                  fuel_required   |-> Len(flight.waypoints) * flight.fuel_per_sector]
    /\ UNCHANGED <<pureVars, regionVars, battleVars, combatVars>>

NextFlight ==
    \/ FlightBegin
    \/ FlightStep
    \/ FlightFinish

\* the function runs to its end once called: nothing suspends the loop
SpecFlight == InitFlight /\ [][NextFlight]_vars /\ WF_vars(NextFlight)

-----------------------------------------------------------------------------
(* Properties of the battle turn controller (Spec) *)

\* time elapsed since battle start, and the span the current turn may take
Elapsed  == now_micros - start_time_micros
TurnSpan == (current_turn + 1) * turn_duration_micros

\* a timeout has ended the battle (operation or message)
TimedOut == ended_by.name = "ForceTimeout"

\* C1: with max_turns = N >= 1 and no timeout, the turn counter is the number
\* of accepted RequestResolution operations (each advances it by exactly one),
\* the battle is Active while fewer than N were accepted, and Ended with turn
\* counter N once N were accepted.
C1_MaxTurnsEndsBattle ==
    (max_turns >= 1 /\ ~TimedOut) =>
        /\ current_turn = ok_resolutions
        /\ ok_resolutions < max_turns => is_active
        /\ ok_resolutions >= max_turns => ~is_active /\ current_turn = max_turns

C1_Witness ==
    /\ max_turns >= 2
    /\ ~TimedOut
    /\ ok_resolutions = max_turns
    /\ ~is_active
    /\ ended_by = [kind |-> "operation", name |-> "RequestResolution"]

\* C2 as claimed: ForceTimeout on an Active battle whose elapsed time does not
\* exceed (current_turn + 1) * turn_duration, equality included, is rejected
\* with TimeoutNotReached and leaves the battle state unchanged.
C2_RejectedUnlessExceeded ==
    [][ (ForceTimeout /\ is_active /\ ~(Elapsed > TurnSpan)) =>
            (last'.response = "TimeoutNotReached" /\ UNCHANGED stateVars) ]_vars

\* C2 amended: ForceTimeout on an Active battle is accepted exactly when the
\* elapsed time is at least (current_turn + 1) * turn_duration, equality
\* included; when it is strictly less the operation is rejected with
\* TimeoutNotReached and the battle state is unchanged.
C2_RejectedOnlyBefore ==
    [][ (ForceTimeout /\ is_active) =>
            IF Elapsed >= TurnSpan
            THEN last'.response = "Ok" /\ ~is_active'
            ELSE last'.response = "TimeoutNotReached" /\ UNCHANGED stateVars ]_vars

\* accepted at the very moment the elapsed time equals the turn span
C2_Witness ==
    /\ last = [kind |-> "operation", name |-> "ForceTimeout", response |-> "Ok",
               at |-> now_micros]
    /\ turn_duration_micros > 0
    /\ Elapsed = TurnSpan
    /\ ~is_active

\* C3: an Ended battle stays Ended under every operation and message, its
\* state is never changed again, and every operation on it answers
\* BattleNotActive.
C3_EndedIsTerminal ==
    [][ ~is_active =>
            /\ ~is_active'
            /\ UNCHANGED stateVars
            /\ \A op \in Operations :
                  execute_operation(op) => last'.response = "BattleNotActive" ]_vars

\* a second ForceTimeout on a battle that a ForceTimeout has ended
C3_Witness ==
    /\ ~is_active
    /\ ended_by = [kind |-> "operation", name |-> "ForceTimeout"]
    /\ last.kind = "operation"
    /\ last.name = "ForceTimeout"
    /\ last.response = "BattleNotActive"

\* C4: a battle leaves Active only by a RequestResolution that brings the turn
\* counter to max_turns or by a ForceTimeout that is due; nothing else, and no
\* message, ends an Active battle before its timeout is due.  ("Due" is read
\* as the operation reads it, equality included, "to max_turns" as "to
\* max_turns or past it", and a ForceTimeout message that is due is let pass.)
C4_OnlyDefinedTransitions ==
    [][ (is_active /\ ~is_active') =>
            \/ RequestResolution /\ current_turn' >= max_turns
            \/ (ForceTimeout \/ MsgForceTimeout) /\ Elapsed >= TurnSpan ]_vars

\* C5: a ForceTimeout operation on an Active battle whose elapsed time exceeds
\* (current_turn + 1) * turn_duration returns Ok and ends the battle, whatever
\* the turn counter is, and leaves the turn counter as it was.
C5_DueTimeoutEnds ==
    [][ (ForceTimeout /\ is_active /\ Elapsed > TurnSpan) =>
            /\ last'.response = "Ok"
            /\ ~is_active'
            /\ current_turn' = current_turn ]_vars

\* accepted with turn counter 0, strictly after the first turn's span
C5_Witness ==
    /\ last = [kind |-> "operation", name |-> "ForceTimeout", response |-> "Ok",
               at |-> now_micros]
    /\ ended_by = [kind |-> "operation", name |-> "ForceTimeout"]
    /\ current_turn = 0
    /\ turn_duration_micros > 0
    /\ Elapsed > TurnSpan
    /\ ~is_active

\* C6: an accepted RequestResolution runs the combat engine once: one
\* calculate_damage on the pre-turn combatants, then each side's remaining
\* ships are reduced by calculate_losses for the damage the other side deals.
C6_ResolutionRunsCombat ==
    [][ (RequestResolution /\ is_active) =>
            LET dmg == calculate_damage(combatants[0], combatants[1])
            IN  /\ combatants'[0] =
                      apply_losses(combatants[0],
                                   calculate_losses(combatants[0], dmg[2]))
                /\ combatants'[1] =
                      apply_losses(combatants[1],
                                   calculate_losses(combatants[1], dmg[1])) ]_vars

\* C7: the turn log holds one TurnRecord per resolved turn: the number of
\* entries of turn_records equals the turn counter.
C7_TurnLogMatchesTurns == Cardinality(DOMAIN turn_records) = current_turn

\* the TerminationReason the stored BattleState holds: it has no register for
\* one, and no handler constructs a TerminationReason
recorded_reason == "None"

\* C8: an Ended battle records why it ended: MaxTurnsReached when a
\* RequestResolution ended it, Timeout when a ForceTimeout did.
C8_ReasonRecorded ==
    ~is_active =>
        recorded_reason = IF ended_by.name = "RequestResolution"
                          THEN "MaxTurnsReached" ELSE "Timeout"

-----------------------------------------------------------------------------
(* Properties of the combat engine (SpecCombat) *)

\* the statistics as the specification words them: the table entry of the
\* type, attack 10 and defense 5 past the table's 10 entries
StatedAttack(type)  == IF type \in 0..9 THEN SHIP_ATTACK[type + 1] ELSE 10
StatedDefense(type) == IF type \in 0..9 THEN SHIP_DEFENSE[type + 1] ELSE 5

\* sum over the ship types in `types` of count * attack (or defense) of the type
RECURSIVE Weighted(_, _, _)
Weighted(ships, stat, types) ==
    IF types = {} THEN 0
    ELSE LET t == CHOOSE x \in types : TRUE
             v == IF stat = "attack" THEN StatedAttack(t) ELSE StatedDefense(t)
         IN  ships[t + 1] * v + Weighted(ships, stat, types \ {t})

Power(ships)  == Weighted(ships, "attack",  0..(Len(ships) - 1))
Armour(ships) == Weighted(ships, "defense", 0..(Len(ships) - 1))
NoShips(ships) == \A i \in 1..Len(ships) : ships[i] = 0
FloorAtZero(x) == IF x < 0 THEN 0 ELSE x

\* C9: calculate_damage gives each side its summed count * attack minus the
\* integer half of the other side's summed count * defense, floored at zero;
\* the result is never negative, and zero for a side without ships.
C9_DamageFormula ==
    stage = "damage" =>
        /\ damage[1] = FloorAtZero(Power(attacker.ships)
                                     - Armour(defender.ships) \div 2)
        /\ damage[2] = FloorAtZero(Power(defender.ships)
                                     - Armour(attacker.ships) \div 2)
        /\ damage[1] >= 0
        /\ damage[2] >= 0
        /\ NoShips(attacker.ships) => damage[1] = 0
        /\ NoShips(defender.ships) => damage[2] = 0

\* ships of a type past the table deal damage; the other side's is floored
C9_Witness ==
    /\ stage = "damage"
    /\ Len(attacker.ships) > Len(SHIP_ATTACK)
    /\ attacker.ships[Len(SHIP_ATTACK) + 1] > 0
    /\ damage[1] > 0
    /\ ~NoShips(defender.ships)
    /\ Power(defender.ships) < Armour(attacker.ships) \div 2
    /\ damage[2] = 0

\* C10: 10 ships of type 0 against 5 ships of type 1: damages 25 and 65, then
\* 3 attacker ships of type 0 and no defender ship are lost.
C10_Scenario ==
    (attacker.ships = ScenarioAttacker /\ defender.ships = ScenarioDefender) =>
        /\ stage \in {"damage", "losses"} => damage = <<25, 65>>
        /\ stage = "losses" => losses = << <<3>>, <<0, 0>> >>

C10_Witness ==
    /\ attacker.ships = ScenarioAttacker
    /\ defender.ships = ScenarioDefender
    /\ stage = "losses"
    /\ losses[1][1] = 3

-----------------------------------------------------------------------------
(* Properties of loss allocation (SpecLosses) *)

\* hit points of one ship of 0-based type t as the specification gives them:
\* ten times the defense of the table, 100 for a type past the table
StatedHitPoints(t) ==
    IF t \in 0..9 THEN SHIP_DEFENSE[t + 1] * 10 ELSE 100

\* hit points the first n loss entries take off the fleet
RECURSIVE Consumed(_, _)
Consumed(ls, n) ==
    IF n = 0 THEN 0 ELSE Consumed(ls, n - 1) + ls[n] * StatedHitPoints(n - 1)

\* C11: calculate_losses never takes more ships of a type than there are, the
\* hit points it consumes stay within the budget (so also within the budget
\* plus one ship's worth), and a budget of 0 or a fleet without ships loses
\* nothing.
C11_LossesBounded ==
    call = "calculate_losses" =>
        LET ships  == args.combatant.ships
            budget == args.damage
        IN  /\ Len(result) = Len(ships)
            /\ \A i \in 1..Len(ships) : result[i] >= 0 /\ result[i] <= ships[i]
            /\ Consumed(result, Len(result)) <= budget
            /\ (budget = 0 \/ NoShips(ships)) =>
                   \A i \in 1..Len(ships) : result[i] = 0

\* a budget larger than the whole fleet: every ship is lost, none more
C11_Witness ==
    /\ call = "calculate_losses"
    /\ ~NoShips(args.combatant.ships)
    /\ result = args.combatant.ships
    /\ args.damage > Consumed(result, Len(result))

\* C12: the losses are the greedy allocation in ascending type index: a type
\* with ships loses min(remaining budget / (defense * 10), count), where the
\* remaining budget is the damage less the hit points of the losses of the
\* types in front; a type without ships loses none.
C12_GreedyAscending ==
    call = "calculate_losses" =>
        LET ships  == args.combatant.ships
            budget == args.damage
        IN  /\ Len(result) = Len(ships)
            /\ \A i \in 1..Len(ships) :
                   result[i] =
                       IF ships[i] = 0 THEN 0
                       ELSE Min((budget - Consumed(result, i - 1))
                                    \div StatedHitPoints(i - 1),
                                ships[i])

\* the damage would pay for a ship of the second type, but the first type
\* is served first and what is left of the budget no longer does
C12_Witness ==
    /\ call = "calculate_losses"
    /\ \E i \in 1..(Len(result) - 1) :
          /\ result[i] > 0
          /\ args.combatant.ships[i + 1] > 0
          /\ args.damage >= StatedHitPoints(i)
          /\ result[i + 1] = 0

\* C13: apply_losses leaves max(remaining - lost, 0) of every type that has
\* a loss entry: never below zero, never more than before, untouched where
\* there is no entry, and entries past the vector change nothing;
\* is_defeated holds exactly when no ship remains.
C13_LossesApplied ==
    call = "apply_losses" =>
        LET before == args.combatant.remaining_ships
            after  == result.combatant.remaining_ships
            lost   == args.losses
        IN  /\ Len(after) = Len(before)
            /\ \A i \in 1..Len(before) :
                   /\ after[i] >= 0
                   /\ after[i] <= before[i]
                   /\ i <= Len(lost) =>
                          after[i] = (IF before[i] - lost[i] > 0
                                      THEN before[i] - lost[i] ELSE 0)
                   /\ i > Len(lost) => after[i] = before[i]
            /\ result.combatant = [args.combatant EXCEPT !.remaining_ships = after]
            /\ result.is_defeated <=> NoShips(after)

\* a loss larger than the count, a type without a loss entry or a loss entry
\* without a type: the count stops at zero
C13_Witness ==
    /\ call = "apply_losses"
    /\ \E i \in 1..Len(args.losses) :
          /\ i <= Len(args.combatant.remaining_ships)
          /\ args.losses[i] > args.combatant.remaining_ships[i]
          /\ args.combatant.remaining_ships[i] > 0
          /\ result.combatant.remaining_ships[i] = 0
    /\ Len(args.losses) > Len(args.combatant.remaining_ships)
    /\ result.is_defeated

-----------------------------------------------------------------------------
(* Properties of the fleet commitment (SpecCrypto) *)

\* C14: a reveal verifies against commit_fleet(fleet, salt) when it discloses
\* the committed fleet and salt, and fails when the salt differs or any ship
\* of the fleet differs in number, type, health or experience.
C14_CommitRevealRoundTrip ==
    call = "verify_fleet_reveal" =>
        /\ (args.revealed_fleet = args.fleet /\ args.revealed_salt = args.salt)
               => result.verified
        /\ args.revealed_salt # args.salt => ~result.verified
        /\ args.revealed_fleet.ships # args.fleet.ships => ~result.verified

\* a reveal with the right salt in which one ship has gained experience, and
\* nothing else differs, has been refused
C14_Witness ==
    /\ call = "verify_fleet_reveal"
    /\ args.revealed_salt = args.salt
    /\ Len(args.revealed_fleet.ships) = Len(args.fleet.ships)
    /\ \E i \in 1..Len(args.fleet.ships) :
          /\ args.revealed_fleet.ships[i].experience # args.fleet.ships[i].experience
          /\ args.revealed_fleet.ships =
                 [args.fleet.ships EXCEPT
                     ![i].experience = args.revealed_fleet.ships[i].experience]
    /\ ~result.verified

-----------------------------------------------------------------------------
(* Properties of fleet presence in the Region chain (SpecRegion) *)

\* the presence record a FleetReveal for fleet `id` is about turns from
\* unrevealed to revealed in this step
BecomesRevealed(id) ==
    \E i \in DOMAIN fleets :
        /\ fleets[i].fleet_id = id
        /\ ~fleets[i].revealed
        /\ i \in DOMAIN fleets'
        /\ fleets'[i].revealed

\* C15: a FleetReveal turns a presence record revealed only when the
\* disclosed ship counts and salt hash to the commitment_hash stored at
\* FleetEnter; a reveal that does not match leaves the record unrevealed.
C15_RevealOnlyOnMatch ==
    [][\A id \in FleetIds, c \in RevealCounts, sl \in RevealSalts :
          (fleet_reveal(id, c, sl) /\ BecomesRevealed(id)) =>
              \E i \in DOMAIN fleets :
                  /\ fleets[i].fleet_id = id
                  /\ fleets[i].commitment_hash = fleet_commitment(c, sl)]_vars

\* C16: a presence record starts unrevealed, as Commitment::new starts; once
\* revealed it stays revealed for as long as it exists; and FleetEnter
\* leaves every existing record as it is.
C16_RevealedMonotone ==
    [][/\ \A i \in DOMAIN fleets \cap DOMAIN fleets' :
             fleets[i].revealed => fleets'[i].revealed
       /\ \A i \in DOMAIN fleets' \ DOMAIN fleets : ~fleets'[i].revealed
       /\ MsgFleetEnter =>
             /\ \A i \in DOMAIN fleets :
                    i \in DOMAIN fleets' /\ fleets'[i] = fleets[i]
             /\ Cardinality(DOMAIN fleets') = Cardinality(DOMAIN fleets) + 1
       /\ \A sl \in Salts : ~Commitment_new(<<1>>, sl, 0).revealed]_vars

\* a fleet has left and another has entered after it: the record revealed
\* before is still there and still revealed, the new one is unrevealed
C16_Witness ==
    /\ region_last.name = "FleetEnter"
    /\ Cardinality(DOMAIN fleets) < fleet_count
    /\ \E i \in DOMAIN fleets : fleets[i].revealed
    /\ fleet_count - 1 \in DOMAIN fleets
    /\ ~fleets[fleet_count - 1].revealed

-----------------------------------------------------------------------------
(* Properties of sector arithmetic (SpecCoords) *)

\* C17: to_sector gives the sector (sx, sy) with sx*s <= x < (sx+1)*s and
\* sy*s <= y < (sy+1)*s, negative coordinates included ((-150, -250) with
\* s = 100 lies in (-2, -3)); applying it again gives the same sector; and
\* in_sector holds for that sector and for no other.
C17_FlooredSector ==
    call = "to_sector" =>
        LET sz == args.sector_size
            sx == result.sector.x
            sy == result.sector.y
        IN  /\ sx * sz <= args.c.x /\ args.c.x < (sx + 1) * sz
            /\ sy * sz <= args.c.y /\ args.c.y < (sy + 1) * sz
            /\ (args.c = [x |-> -150, y |-> -250] /\ sz = 100)
                   => result.sector = [x |-> -2, y |-> -3]
            /\ to_sector(args.c, sz) = result.sector
            /\ result.in_sectors = {result.sector}

\* a negative coordinate that is no multiple of the sector size
C17_Witness ==
    /\ call = "to_sector"
    /\ args.c.x < 0
    /\ args.sector_size > 1
    /\ result.sector.x * args.sector_size < args.c.x
    /\ result.in_sectors # {}

\* C18: to_chain_id_bytes gives equal ids for equal (x, y, seed) and, the
\* hash standing for the bytes hashed, different ids for different ones.
C18_ChainIdInjective ==
    call = "to_chain_id_bytes" =>
        /\ args.a = args.b => result.a = result.b
        /\ args.a # args.b => result.a # result.b
        /\ Len(result.a[2]) = Len(SECTOR_TAG) + 8 + 8 + 32

\* sectors that differ in the sign of x only
C18_Witness ==
    /\ call = "to_chain_id_bytes"
    /\ args.a.sector.x = -args.b.sector.x
    /\ args.a.sector.x # 0
    /\ args.a.sector.y = args.b.sector.y
    /\ args.a.seed = args.b.seed
    /\ result.a # result.b

\* C19: adjacent_sectors lists the eight Moore neighbours row by row from
\* (x-1, y-1) to (x+1, y+1): all different, none the sector itself, and
\* together exactly the sectors at Chebyshev distance 1.
C19_MooreNeighbours ==
    call = "adjacent_sectors" =>
        LET sx  == args.sector.x
            sy  == args.sector.y
            adj == result.adjacent
        IN  /\ adj = << [x |-> sx - 1, y |-> sy - 1], [x |-> sx, y |-> sy - 1],
                        [x |-> sx + 1, y |-> sy - 1], [x |-> sx - 1, y |-> sy],
                        [x |-> sx + 1, y |-> sy], [x |-> sx - 1, y |-> sy + 1],
                        [x |-> sx, y |-> sy + 1], [x |-> sx + 1, y |-> sy + 1] >>
            /\ Len(adj) = 8
            /\ \A i, j \in 1..8 : i # j => adj[i] # adj[j]
            /\ \A i \in 1..8 : adj[i] # args.sector
            /\ { adj[i] : i \in 1..8 } = result.at_one
            /\ \A sec \in result.at_one :
                   LET dx == sec.x - sx
                       dy == sec.y - sy
                   IN  /\ dx \in (-1)..1 /\ dy \in (-1)..1
                       /\ dx # 0 \/ dy # 0

\* a sector with neighbours on both sides of zero
C19_Witness ==
    /\ call = "adjacent_sectors"
    /\ args.sector = [x |-> 0, y |-> 0]
    /\ Cardinality(result.at_one) = 8

-----------------------------------------------------------------------------
(* Properties of the direct flight path (SpecFlight) *)

\* the position the path is at before waypoint i
Before(i) == IF i = 1 THEN flight.origin_sector ELSE flight.waypoints[i - 1]

Sign(v) == IF v > 0 THEN 1 ELSE IF v < 0 THEN -1 ELSE 0

\* Chebyshev distance between two sectors
Chebyshev(a, b) ==
    LET dx == IF a.x >= b.x THEN a.x - b.x ELSE b.x - a.x
        dy == IF a.y >= b.y THEN a.y - b.y ELSE b.y - a.y
    IN  IF dx >= dy THEN dx ELSE dy

\* every waypoint is one signum step per axis from the position before it,
\* hence adjacent to it; a finished path has as many waypoints as the
\* sectors of origin and destination are apart, ends in the destination
\* sector, and needs that many times fuel_per_sector of fuel
PathShape ==
    /\ flight.pc \in {"loop", "done"} =>
          \A i \in 1..Len(flight.waypoints) :
              /\ flight.waypoints[i].x - Before(i).x
                     = Sign(flight.dest_sector.x - Before(i).x)
              /\ flight.waypoints[i].y - Before(i).y
                     = Sign(flight.dest_sector.y - Before(i).y)
              /\ Chebyshev(flight.waypoints[i], Before(i)) = 1
    /\ flight.pc = "done" =>
          /\ flight.origin_sector = to_sector(flight.origin, flight.sector_size)
          /\ flight.dest_sector = to_sector(flight.destination, flight.sector_size)
          /\ Len(flight.waypoints)
                 = Chebyshev(flight.origin_sector, flight.dest_sector)
          /\ flight.origin_sector = flight.dest_sector => flight.waypoints = << >>
          /\ flight.waypoints # << >> =>
                 flight.waypoints[Len(flight.waypoints)] = flight.dest_sector
          /\ flight.fuel_required = Len(flight.waypoints) * flight.fuel_per_sector

\* C20: the waypoint loop of FlightPath::direct ends, and the path it builds
\* goes by signum steps through adjacent sectors from the origin sector to
\* the destination sector in Chebyshev-distance many waypoints, at
\* fuel_per_sector of fuel each.
C20_DirectPathTerminates ==
    []PathShape /\ <>(flight.pc = "done")

\* a finished path that first runs diagonally and then straight, across zero
C20_Witness ==
    /\ flight.pc = "done"
    /\ Len(flight.waypoints) >= 3
    /\ flight.waypoints[1].x # flight.origin_sector.x
    /\ flight.waypoints[1].y # flight.origin_sector.y
    /\ flight.waypoints[Len(flight.waypoints)].y
           = flight.waypoints[Len(flight.waypoints) - 1].y
    /\ flight.origin_sector.x < 0
    /\ flight.dest_sector.x > 0
    /\ flight.fuel_required > 0

\* the time of a path on a fleet that can move: 1000 times the distance,
\* rounded down, divided by the speed, rounded down
TravelTimeAsStated(p) ==
    LET dx == p.origin.x - p.destination.x
        dy == p.origin.y - p.destination.y
        n  == (dx * dx + dy * dy) * 1000000
        b  == CHOOSE r \in 0..(1000 * (MaxCoord + 2) * 2) :
                  r * r <= n /\ n < (r + 1) * (r + 1)
    IN  b \div p.fleet_speed

\* C21: with fleet speed 0 the travel time is u64::MAX whatever the two
\* coordinates are (no division takes place), and FlightPath::direct called
\* with speed 0 returns, carrying estimated_time = u64::MAX; with a speed
\* above 0 the time is the scaled distance divided by the speed.
C21_ZeroSpeedUnreachable ==
    /\ [](flight.pc = "done" =>
             /\ flight.fleet_speed = 0 => flight.estimated_time = U64_MAX
             /\ flight.fleet_speed > 0 =>
                    /\ flight.estimated_time = TravelTimeAsStated(flight)
                    /\ flight.estimated_time < U64_MAX)
    /\ (flight.pc = "start" /\ flight.fleet_speed = 0)
           ~> (flight.pc = "done" /\ flight.estimated_time = U64_MAX)

\* a path over several sectors for a fleet that cannot move has been returned
C21_Witness ==
    /\ flight.pc = "done"
    /\ flight.fleet_speed = 0
    /\ flight.origin # flight.destination
    /\ Len(flight.waypoints) >= 2
    /\ flight.estimated_time = U64_MAX

-----------------------------------------------------------------------------
(* Properties of procedural generation (SpecCrypto) *)

\* byte 0 of the digest the called function reads
DigestByte0 == args.digest[CHOOSE h \in DOMAIN args.digest : TRUE][1]

\* the planet type of the band a value of 0..99 lies in
TypeOfBand(m) ==
    IF m <= 24 THEN "Terrestrial"
    ELSE IF m <= 44 THEN "Metallic"
    ELSE IF m <= 64 THEN "GasGiant"
    ELSE IF m <= 79 THEN "Barren"
    ELSE IF m <= 89 THEN "Volcanic"
    ELSE "Temporal"

\* C22: has_planet is true exactly when byte 0 of its digest is below 38;
\* generate_planet_type gives the type of the band that byte 0 modulo 100
\* lies in (0-24, 25-44, 45-64, 65-79, 80-89, 90-99), one of the six types
\* for each byte value, never through the fallback arm.
C22_PlanetBands ==
    /\ call = "has_planet" => (result[1] <=> DigestByte0 < 38)
    /\ call = "generate_planet_type" =>
          /\ result[1].planet_type = TypeOfBand(DigestByte0 % 100)
          /\ result[1].arm \in 1..6

\* a byte past 199, whose remainder is the last value of the first band
C22_Witness ==
    /\ call = "generate_planet_type"
    /\ DigestByte0 = 224
    /\ result[1].planet_type = "Terrestrial"
    /\ result[1].arm = 1

\* the bytes hashed for a purpose at the coordinate of the call
HashedFor(purpose) == procedural_hash(args.seed, args.x, args.y, purpose)[2]

\* C23: the same seed and coordinate give the same presence, type and name
\* on a second call; the three name indices lie inside their tables of 25,
\* 20 and 19 entries; and the byte strings hashed for "has_planet",
\* "planet_type" and "planet_name" differ from one another.
C23_GenerationDeterministic ==
    call \in {"has_planet", "generate_planet_type", "generate_planet_name"} =>
        /\ result[1] = result[2]
        /\ call = "generate_planet_name" =>
              /\ result[1].indices[1] \in 0..24
              /\ result[1].indices[2] \in 0..19
              /\ result[1].indices[3] \in 0..18
              /\ result[1].indices[1] = args.digest[CHOOSE h \in DOMAIN args.digest : TRUE][1] % 25
              /\ result[1].indices[2] = args.digest[CHOOSE h \in DOMAIN args.digest : TRUE][2] % 20
              /\ result[1].indices[3] = args.digest[CHOOSE h \in DOMAIN args.digest : TRUE][3] % 19
        /\ HashedFor("has_planet") # HashedFor("planet_type")
        /\ HashedFor("has_planet") # HashedFor("planet_name")
        /\ HashedFor("planet_type") # HashedFor("planet_name")

\* the last entry of each table has been picked
C23_Witness ==
    /\ call = "generate_planet_name"
    /\ result[1].indices = <<24, 19, 18>>
    /\ result[1].name = "Zetitera"

\* C24: quadrant goes by the sign of each axis, 0 counting as non-negative:
\* NorthEast for x >= 0 and y >= 0, NorthWest for x < 0 and y >= 0,
\* SouthWest for x < 0 and y < 0, SouthEast for x >= 0 and y < 0; every
\* sector has exactly one quadrant, and that of (0, 0) is NorthEast.
C24_QuadrantBySign ==
    call = "quadrant" =>
        LET sx == args.sector.x
            sy == args.sector.y
        IN  /\ result \in {"NorthEast", "NorthWest", "SouthWest", "SouthEast"}
            /\ result = "NorthEast" <=> (sx >= 0 /\ sy >= 0)
            /\ result = "NorthWest" <=> (sx < 0 /\ sy >= 0)
            /\ result = "SouthWest" <=> (sx < 0 /\ sy < 0)
            /\ result = "SouthEast" <=> (sx >= 0 /\ sy < 0)
            /\ (sx = 0 /\ sy = 0) => result = "NorthEast"

\* a sector on the y axis below the x axis
C24_Witness ==
    /\ call = "quadrant"
    /\ args.sector.x = 0
    /\ args.sector.y < 0
    /\ result = "SouthEast"

-----------------------------------------------------------------------------
(* Properties of combat over rounds (SpecCombat) *)

\* C25: in every round the damage is computed from the ships the two sides
\* hold at the start of the round, the losses of earlier rounds taken off;
\* a defeated combatant deals no damage in a later round.
C25_RoundsUseRemainingShips ==
    stage = "damage" =>
        /\ damage[1] = FloorAtZero(Power(attacker.remaining_ships)
                                     - Armour(defender.remaining_ships) \div 2)
        /\ damage[2] = FloorAtZero(Power(defender.remaining_ships)
                                     - Armour(attacker.remaining_ships) \div 2)
        /\ is_defeated(attacker) => damage[1] = 0
        /\ is_defeated(defender) => damage[2] = 0

\* C26: ships of a type the table does not cover have ten times the
\* fallback defense of calculate_damage as hit points in calculate_losses:
\* such a type loses min(remaining damage / (10 * fallback defense), count).
C26_SameFallbackDefense ==
    stage = "losses" =>
        \A side \in 1..2 :
            LET c   == IF side = 1 THEN attacker ELSE defender
                dmg == IF side = 1 THEN damage[2] ELSE damage[1]
                ls  == losses[side]
            IN  \A i \in (Len(SHIP_DEFENSE) + 1)..Len(c.ships) :
                    c.ships[i] > 0 =>
                        ls[i] = Min((dmg - Consumed(ls, i - 1))
                                        \div (10 * StatedDefense(i - 1)),
                                    c.ships[i])

\* C27: calculate_damage(d, a) is calculate_damage(a, d) with the two
\* damages swapped, and calculate_damage changes neither combatant.
C27_DamageSymmetric ==
    [][CalcDamage =>
          /\ attacker' = attacker
          /\ defender' = defender
          /\ calculate_damage(defender, attacker) = <<damage'[2], damage'[1]>>
          /\ calculate_damage(attacker, defender) = damage']_vars

\* both sides deal damage, and not the same
C27_Witness ==
    /\ stage = "damage"
    /\ damage[1] > 0
    /\ damage[2] > damage[1]
    /\ defense_sum(attacker.ships, Len(attacker.ships)) > 1

-----------------------------------------------------------------------------
(* C28 .. C30: the battle chain under interleaved requests *)

OperationStep == SubmitCommand \/ RequestResolution \/ ForceTimeout \/ ExtendWarBond

\* C28: however RequestResolution and ForceTimeout operations and ForceTimeout
\* messages interleave on one battle, the turn counter is the number of
\* RequestResolution operations answered Ok, the battle goes from Active to
\* Ended in at most one step of the run (an Ended battle stays Ended and the
\* step that ends it finds no earlier one), and every operation executed on
\* the Ended battle is answered BattleNotActive.
C28_NoRequestLostOrDoubled ==
    /\ [](current_turn = ok_resolutions)
    /\ [][ /\ (is_active /\ ~is_active') => ended_by = NoEnd
           /\ ~is_active =>
                 /\ ~is_active'
                 /\ ended_by' = ended_by
                 /\ OperationStep => last'.response = "BattleNotActive" ]_vars

\* a ForceTimeout message ended the battle after one resolved turn, and the
\* RequestResolution that came after it was refused
C28_Witness ==
    /\ ~is_active
    /\ ended_by = [kind |-> "message", name |-> "ForceTimeout"]
    /\ current_turn = 1
    /\ ok_resolutions = 1
    /\ max_turns = 2
    /\ last.kind = "operation"
    /\ last.name = "RequestResolution"
    /\ last.response = "BattleNotActive"

\* C29: with max_turns >= 1 the turn counter never exceeds max_turns, and a
\* battle is Active only while the counter is strictly below max_turns.
C29_TurnsBoundedByMax ==
    max_turns >= 1 =>
        /\ current_turn <= max_turns
        /\ is_active => current_turn < max_turns

\* the resolution of the last of two turns ended the battle
C29_Witness ==
    /\ max_turns = 2
    /\ current_turn = max_turns
    /\ ~is_active
    /\ ended_by = [kind |-> "operation", name |-> "RequestResolution"]

=============================================================================
